---- MODULE Spec2Model ----
(***************************************************************************)
(* ScriptModuleDeserializer of torch/csrc/jit/import.cpp: the last record  *)
(* of a PyTorchStreamReader archive is transcoded to a ModelDef, the       *)
(* tensor table is loaded over a map of shared storages, and the module    *)
(* tree is rebuilt by the recursive convertModule through a ModuleLookup.  *)
(* The recursion is an explicit stack of frames; one action is one step of *)
(* the single thread of control.                                           *)
(***************************************************************************)
EXTENDS Integers, Sequences, FiniteSets, TLC

VARIABLES
    entry,          \* the public entry point that drives deserialize
    last_record,    \* what getLastRecord / JsonToBinaryString make of the metadata
    model_def,      \* torch::ModelDef parsed from the last record
    pc,             \* position of the thread of control in deserialize
    error,          \* the exception that ended deserialize, "none" otherwise
    tensor_table_,  \* std::vector<at::Tensor> tensor_table_
    storageMap,     \* loadTensorTable's std::unordered_map<uint64_t, at::Storage>
    storages,       \* every at::Storage instance constructed so far
    moduleStack_,   \* std::vector<std::string> moduleStack_
    frames,         \* activation records of convertModule, innermost last
    modules,        \* the script::Module objects behind the ModuleLookup, by path
    lookups,        \* every moduleLookup_ invocation, in order
    fetches         \* every reader_.getRecordWithKey request, in order

vars == <<entry, last_record, model_def, pc, error, tensor_table_, storageMap,
          storages, moduleStack_, frames, modules, lookups, fetches>>

-----------------------------------------------------------------------------
(* Bounds of the explored archives.                                        *)

MaxTensors == 2
MaxModules == 3
MaxParams == 2

-----------------------------------------------------------------------------
(* Sequences.                                                              *)

SeqsUpTo(S, n) == UNION {[1..k -> S] : k \in 0..n}

Front(s) == SubSeq(s, 1, Len(s) - 1)

Last(s) == s[Len(s)]

IsPrefix(s, t) == Len(s) <= Len(t) /\ SubSeq(t, 1, Len(s)) = s

RECURSIVE SumSeq(_)
SumSeq(s) == IF s = <<>> THEN 0 ELSE s[1] + SumSeq(Tail(s))

-----------------------------------------------------------------------------
(* The archive: records of the PyTorchStreamReader by key.  A key is       *)
(* written in the metadata as a decimal string and parsed by caffe2::stoull.*)

\* Decimal strings as sequences of digits: "1", "01", "2", "3".
KeyStrings == {<<1>>, <<0, 1>>, <<2>>, <<3>>}

RECURSIVE stoull(_)
stoull(s) == IF s = <<>> THEN 0 ELSE 10 * stoull(Front(s)) + Last(s)

\* Byte length of each record of the archive; record 3 is not in the archive.
Records == (1 :> 4) @@ (2 :> 8)

Sizes == {4, 8}

HasRecord(record_id) == record_id \in DOMAIN Records

-----------------------------------------------------------------------------
(* Descriptors of caffe2/proto/torch.proto as the deserializer reads them. *)

DataTypes == {"FLOAT"}

itemsize(type) == IF type = "FLOAT" THEN 4 ELSE 1

TensorDefsOver(keys, sizes, grads) ==
    [dims : {<<1>>}, strides : {<<1>>}, offset : {0}, data_type : DataTypes,
     requires_grad : grads, data : [key : keys, size : sizes]]

TensorDefs == TensorDefsOver(KeyStrings, Sizes, BOOLEAN)

\* The two parameters of a batch-norm like module: a parameter and a buffer.
ParameterDefs ==
    {[name |-> "weight", tensor_id |-> 0, is_buffer |-> FALSE],
     [name |-> "running_mean", tensor_id |-> 1, is_buffer |-> TRUE]}

Names == {"a", "b"}

\* torchscript_arena references: record 1 with its length, record 1 with a
\* wrong length, record 2 (not a loadable code arena), the absent record 3.
ArenaOk == [key |-> <<1>>, size |-> 4]
ArenaRefs == {ArenaOk, [key |-> <<0, 1>>, size |-> 8], [key |-> <<2>>, size |-> 8],
              [key |-> <<3>>, size |-> 4]}

\* Whether import_methods accepts the bytes of a record as a code arena.
Loadable(record_id) == record_id # 2

\* ModuleDefs with exactly n modules, fields drawn from the domains of D.
RECURSIVE ModuleDefsOfSize(_, _), SubmodulesOfSize(_, _)
SubmodulesOfSize(n, D) ==
    IF n = 0 THEN {<<>>}
    ELSE UNION {{<<m>> \o rest : m \in ModuleDefsOfSize(k, D),
                                 rest \in SubmodulesOfSize(n - k, D)} : k \in 1..n}
ModuleDefsOfSize(n, D) ==
    [name : D.names, optimize : D.optimize, submodules : SubmodulesOfSize(n - 1, D),
     parameters : D.parameters, torchscript_arena : D.arenas]

ModuleDefsUpTo(n, D) == UNION {ModuleDefsOfSize(k, D) : k \in 1..n}

\* The main module's own name is drawn from one value: it names no path.
MainModules(n, D) == {m \in ModuleDefsUpTo(n, D) : m.name = "a"}

RECURSIVE ModuleCount(_)
ModuleCount(m) ==
    1 + SumSeq([i \in 1..Len(m.submodules) |-> ModuleCount(m.submodules[i])])

\* The descriptor reached from m by a sequence of submodule indexes.
RECURSIVE SubDef(_, _)
SubDef(m, ipath) ==
    IF ipath = <<>> THEN m ELSE SubDef(m.submodules[ipath[1]], Tail(ipath))

\* The names of the descriptors below m along a sequence of submodule indexes.
RECURSIVE NamePath(_, _)
NamePath(m, ipath) ==
    IF ipath = <<>> THEN <<>>
    ELSE <<m.submodules[ipath[1]].name>> \o NamePath(m.submodules[ipath[1]], Tail(ipath))

\* All descriptors of the tree of m, as index sequences, in depth-first
\* pre-order with siblings left to right.
RECURSIVE PreOrderFrom(_, _), PreOrderSubs(_, _, _)
PreOrderSubs(m, ipath, i) ==
    IF i > Len(m.submodules) THEN <<>>
    ELSE PreOrderFrom(m.submodules[i], Append(ipath, i)) \o PreOrderSubs(m, ipath, i + 1)
PreOrderFrom(m, ipath) == <<ipath>> \o PreOrderSubs(m, ipath, 1)

PreOrder(m) == PreOrderFrom(m, <<>>)

DefPaths(m) == {PreOrder(m)[i] : i \in 1..Len(PreOrder(m))}

-----------------------------------------------------------------------------
(* script::Module objects, seen through the calls the deserializer makes.  *)

\* A module nothing has been done to: std::make_shared<script::Module>().
FreshModule ==
    [set_optimized |-> <<>>, register_parameter |-> <<>>, import_methods |-> <<>>,
     submodules |-> <<>>]

EntryPoints == {"load", "import_ir_module"}

\* Paths a lookup can be asked for in a tree of at most MaxModules modules.
ModulePaths == SeqsUpTo(Names, MaxModules - 1)

\* The tree a caller of import_ir_module owns: a module under every path.
OwnedModule(path) ==
    IF Len(path) < MaxModules - 1
    THEN [FreshModule EXCEPT !.submodules = <<"a", "b">>]
    ELSE FreshModule

OwnedTree == [path \in ModulePaths |-> OwnedModule(path)]

\* script::Module::find_module: is a submodule of that name registered?
find_module(mods, curr, name) ==
    \E i \in 1..Len(mods[curr].submodules) : mods[curr].submodules[i] = name

\* script::Module::register_module under curr.
register_module(mods, curr, name) ==
    (Append(curr, name) :> FreshModule)
        @@ [mods EXCEPT ![curr].submodules = Append(@, name)]

\* A loop body that registers a new module whether or not one is there.
LookupStepAlways(mods, curr, name) == register_module(mods, curr, name)

\* One iteration of the loop of load's module_lookup lambda.
LookupStep(mods, curr, name) ==
    IF ~find_module(mods, curr, name) THEN register_module(mods, curr, name) ELSE mods

\* The module_lookup lambda of load: the modules after the call and the path
\* that identifies the module it returns.
RECURSIVE LookupFrom(_, _, _)
LookupFrom(mods, curr, qualified_name) ==
    IF qualified_name = <<>> THEN [modules |-> mods, module |-> curr]
    ELSE LookupFrom(LookupStep(mods, curr, qualified_name[1]),
                    Append(curr, qualified_name[1]), Tail(qualified_name))

module_lookup(mods, qualified_name) == LookupFrom(mods, <<>>, qualified_name)

\* A ModuleLookup handed to import_ir_module: the caller's module of that path.
OwnedLookup(mods, qualified_name) == [modules |-> mods, module |-> qualified_name]

moduleLookup_(mods, qualified_name) ==
    IF entry = "load" THEN module_lookup(mods, qualified_name)
    ELSE OwnedLookup(mods, qualified_name)

-----------------------------------------------------------------------------
(* Initial states: an entry point, an archive and a fresh deserializer.    *)

NoError == [what |-> "none", def |-> <<>>, i |-> 0]

Failure(what, def, i) == [what |-> what, def |-> def, i |-> i]

\* Outcomes of getLastRecord and of the JSON transcoder on the last record.
LastRecords == {"ok", "unreadable", "malformed_json", "schema_mismatch", "invalid_protobuf"}

\* A default-constructed torch::ModelDef.
EmptyModelDef ==
    [main_module |-> [name |-> "", optimize |-> FALSE, submodules |-> <<>>,
                      parameters |-> <<>>, torchscript_arena |-> [key |-> <<>>, size |-> 0]],
     tensors |-> <<>>]

ParameterLists == SeqsUpTo(ParameterDefs, MaxParams)

\* Archives that vary the tensor list, under a single module that varies
\* optimize.
TensorModels ==
    [main_module : MainModules(1, [names |-> {"a"}, optimize |-> BOOLEAN,
                                   parameters |-> {<<>>}, arenas |-> {ArenaOk}]),
     tensors : SeqsUpTo(TensorDefsOver(KeyStrings, Sizes, {FALSE}), MaxTensors)]

\* Archives that vary the shape, the names and the code arenas of the tree.
ShapeModels ==
    [main_module : MainModules(MaxModules,
                       [names |-> Names, optimize |-> {TRUE},
                        parameters |-> {<<>>}, arenas |-> ArenaRefs]),
     tensors : {<<>>}]

\* Tensor i of a well-formed table: the records exist with the declared
\* sizes, and all tensors share the storage of record 1.
SharedTensor(i) ==
    [dims |-> <<1>>, strides |-> <<i>>, offset |-> 0, data_type |-> "FLOAT",
     requires_grad |-> (i % 2 = 1),
     data |-> [key |-> IF i % 2 = 1 THEN <<1>> ELSE <<0, 1>>, size |-> 4]]

SharedTensorLists == {[i \in 1..n |-> SharedTensor(i)] : n \in 0..MaxTensors}

\* Archives that vary the parameters over well-formed tensor tables of every
\* length: trees of equally named modules of which any may carry the
\* parameter list, and trees of any names whose modules all carry it.
ParameterModels ==
    UNION {[main_module :
                MainModules(MaxModules, [names |-> {"a"}, optimize |-> {TRUE},
                                         parameters |-> {<<>>, pl}, arenas |-> {ArenaOk}])
                \cup MainModules(MaxModules, [names |-> Names, optimize |-> {TRUE},
                                              parameters |-> {pl}, arenas |-> {ArenaOk}]),
            tensors : SharedTensorLists] : pl \in ParameterLists}

\* A parameter whose tensor_id is negative: as the size_t argument of
\* std::vector::at it is larger than any table.
StrayParameter == [name |-> "bias", tensor_id |-> -1, is_buffer |-> FALSE]

\* Archives of one module that vary its parameters, negative ids included.
TensorIdModels ==
    [main_module : MainModules(1, [names |-> {"a"}, optimize |-> {TRUE},
                                   parameters |-> SeqsUpTo(ParameterDefs \cup {StrayParameter},
                                                           MaxParams),
                                   arenas |-> {ArenaOk}]),
     tensors : SharedTensorLists]

ModelDefs == TensorModels \cup ShapeModels \cup ParameterModels \cup TensorIdModels

Init ==
    /\ entry \in EntryPoints
    /\ last_record \in LastRecords
    /\ IF last_record = "ok" THEN model_def \in ModelDefs ELSE model_def = EmptyModelDef
    /\ pc = "deserialize"
    /\ error = NoError
    /\ tensor_table_ = <<>>
    /\ storageMap = <<>>
    /\ storages = <<>>
    /\ moduleStack_ = <<>>
    /\ frames = <<>>
    /\ modules = IF entry = "load" THEN (<<>> :> FreshModule) ELSE OwnedTree
    /\ lookups = <<>>
    /\ fetches = <<>>

-----------------------------------------------------------------------------
(* deserialize and loadTensorTable.                                        *)

\* The error deserialize raises for an outcome of reading the last record.
LastRecordError(outcome) ==
    CASE outcome = "unreadable" -> "ArchiveReadError"
      [] outcome = "malformed_json" -> "MetadataTranscodeError"
      [] outcome = "schema_mismatch" -> "SchemaValidationError"
      [] outcome = "invalid_protobuf" -> "InvalidProtobufOutput"
      [] OTHER -> "none"

\* A deserialize that goes on with model_def whatever became of the last
\* record.
DeserializeUnchecked ==
    /\ pc = "deserialize"
    /\ pc' = "loadTensorTable"
    /\ UNCHANGED <<entry, last_record, model_def, error, tensor_table_, storageMap, storages,
                   moduleStack_, frames, modules, lookups, fetches>>

\* deserialize up to the call of loadTensorTable: getLastRecord, the JSON
\* transcoder, ParseFromString, moduleLookup_ = module_lookup.
Deserialize ==
    /\ pc = "deserialize"
    /\ IF last_record = "ok"
       THEN /\ pc' = "loadTensorTable"
            /\ error' = error
       ELSE /\ pc' = "done"
            /\ error' = Failure(LastRecordError(last_record), <<>>, 0)
    /\ UNCHANGED <<entry, last_record, model_def, tensor_table_, storageMap, storages,
                   moduleStack_, frames, modules, lookups, fetches>>

\* A tensor view that is never made a variable that requires grad.
TensorOverDetached(tensor_proto, storage) ==
    [storage |-> storage, offset |-> tensor_proto.offset, dims |-> tensor_proto.dims,
     strides |-> tensor_proto.strides, type |-> tensor_proto.data_type,
     requires_grad |-> FALSE]

\* The tensor view loadTensor builds over a storage.
TensorOver(tensor_proto, storage) ==
    [storage |-> storage, offset |-> tensor_proto.offset, dims |-> tensor_proto.dims,
     strides |-> tensor_proto.strides, type |-> tensor_proto.data_type,
     requires_grad |-> tensor_proto.requires_grad]

\* A loadTensor that forgets to record the new storage in the map.
insertNothing(storage_map, record_id, id) == storage_map

\* storageMap.insert(std::make_pair(record_id, storage)).
insertStorage(storage_map, record_id, id) == (record_id :> id) @@ storage_map

\* A miss branch that builds the storage without comparing the record size
\* with the declared size.
fetchStorageUnchecked(tensor_proto, storage_map, allocated) ==
    LET record_id == stoull(tensor_proto.data.key)
        type == tensor_proto.data_type
    IN  IF ~HasRecord(record_id)
        THEN [tensor |-> <<>>, storageMap |-> storage_map, storages |-> allocated,
              requests |-> <<record_id>>, error |-> "ArchiveReadError"]
        ELSE LET storage == [record |-> record_id,
                             numel |-> Records[record_id] \div itemsize(type)]
                 id == Len(allocated) + 1
             IN  [tensor |-> <<TensorOver(tensor_proto, id)>>,
                  storageMap |-> (record_id :> id) @@ storage_map,
                  storages |-> Append(allocated, storage),
                  requests |-> <<record_id>>, error |-> "none"]

\* The miss branch of loadTensor: getRecordWithKey, the AT_ASSERT on the
\* record size, a new at::Storage, its insertion into the map.  The result
\* is the tensor, the storage map and the storages after the call, the
\* record requests made, and the error that ended it ("none" if none).
fetchStorage(tensor_proto, storage_map, allocated) ==
    LET record_id == stoull(tensor_proto.data.key)
        type == tensor_proto.data_type
    IN  IF ~HasRecord(record_id)
        THEN [tensor |-> <<>>, storageMap |-> storage_map, storages |-> allocated,
              requests |-> <<record_id>>, error |-> "ArchiveReadError"]
        ELSE IF Records[record_id] # tensor_proto.data.size
        THEN [tensor |-> <<>>, storageMap |-> storage_map, storages |-> allocated,
              requests |-> <<record_id>>, error |-> "StorageSizeMismatch"]
        ELSE LET storage == [record |-> record_id,
                             numel |-> Records[record_id] \div itemsize(type)]
                 id == Len(allocated) + 1
             IN  [tensor |-> <<TensorOver(tensor_proto, id)>>,
                  storageMap |-> insertStorage(storage_map, record_id, id),
                  storages |-> Append(allocated, storage),
                  requests |-> <<record_id>>, error |-> "none"]

\* A loadTensor that never consults the storage map.
loadTensorUncached(tensor_proto, storage_map, allocated) ==
    fetchStorage(tensor_proto, storage_map, allocated)

\* loadTensor: a storage already in the map is reused, any other is fetched.
loadTensor(tensor_proto, storage_map, allocated) ==
    LET record_id == stoull(tensor_proto.data.key)
    IN  IF record_id \in DOMAIN storage_map
        THEN [tensor |-> <<TensorOver(tensor_proto, storage_map[record_id])>>,
              storageMap |-> storage_map, storages |-> allocated,
              requests |-> <<>>, error |-> "none"]
        ELSE fetchStorage(tensor_proto, storage_map, allocated)

Request(by, def, record_id) == [by |-> by, def |-> def, key |-> record_id]

\* One iteration of the loop of loadTensorTable.
LoadTensor ==
    /\ pc = "loadTensorTable"
    /\ Len(tensor_table_) < Len(model_def.tensors)
    /\ LET i == Len(tensor_table_) + 1
           r == loadTensor(model_def.tensors[i], storageMap, storages)
       IN  /\ fetches' = fetches \o [k \in 1..Len(r.requests) |->
                                        Request("loadTensor", <<>>, r.requests[k])]
           /\ storageMap' = r.storageMap
           /\ storages' = r.storages
           /\ tensor_table_' = tensor_table_ \o r.tensor
           /\ IF r.error = "none"
              THEN UNCHANGED <<pc, error>>
              ELSE /\ pc' = "done"
                   /\ error' = Failure(r.error, <<>>, i)
    /\ UNCHANGED <<entry, last_record, model_def, moduleStack_, frames, modules, lookups>>

\* An activation of convertModule: its descriptor (as submodule indexes from
\* the main module), its local `module`, and where it stands in its body.
Frame(def, module, phase, i) == [def |-> def, module |-> module, phase |-> phase, i |-> i]

\* A deserialize that may call convertModule before the loop of
\* loadTensorTable has run to its end.
ConvertMainModuleEarly ==
    /\ pc = "loadTensorTable"
    /\ pc' = "convertModule"
    /\ storageMap' = <<>>
    /\ frames' = <<Frame(<<>>, <<>>, "lookup", 0)>>
    /\ UNCHANGED <<entry, last_record, model_def, error, tensor_table_, storages,
                   moduleStack_, modules, lookups, fetches>>

\* loadTensorTable returns (its storage map goes out of scope) and
\* deserialize calls convertModule on the main module.
ConvertMainModule ==
    /\ pc = "loadTensorTable"
    /\ Len(tensor_table_) = Len(model_def.tensors)
    /\ pc' = "convertModule"
    /\ storageMap' = <<>>
    /\ frames' = <<Frame(<<>>, <<>>, "lookup", 0)>>
    /\ UNCHANGED <<entry, last_record, model_def, error, tensor_table_, storages,
                   moduleStack_, modules, lookups, fetches>>

-----------------------------------------------------------------------------
(* convertModule, one step of its body at a time.                          *)

Top == Last(frames)

TopDef == SubDef(model_def.main_module, Top.def)

\* A convertModule whose parameter loop stops one iteration early.
AdvanceOffByOne(module_def, frame) ==
    LET arena == [frame EXCEPT !.phase = "arena", !.i = 0]
    IN  IF frame.phase = "submodules" /\ ~(frame.i < Len(module_def.submodules))
        THEN IF 1 < Len(module_def.parameters)
             THEN [frame EXCEPT !.phase = "parameters", !.i = 0]
             ELSE arena
        ELSE IF frame.phase = "parameters" /\ ~(frame.i + 1 < Len(module_def.parameters))
        THEN arena
        ELSE frame

\* Where the body of convertModule stands once a loop condition has been
\* evaluated: a finished loop falls through to the next statement.
RECURSIVE Advance(_, _)
Advance(module_def, frame) ==
    IF frame.phase = "submodules" /\ ~(frame.i < Len(module_def.submodules))
    THEN Advance(module_def, [frame EXCEPT !.phase = "parameters", !.i = 0])
    ELSE IF frame.phase = "parameters" /\ ~(frame.i < Len(module_def.parameters))
    THEN [frame EXCEPT !.phase = "arena", !.i = 0]
    ELSE frame

ReplaceTop(frame) == Append(Front(frames), frame)

\* An exception leaves deserialize: the activations are unwound.
\* An error that is noted while convertModule stays where it is.
ThrowAndGoOn(what, def, i) ==
    /\ pc' = pc
    /\ error' = Failure(what, def, i)
    /\ frames' = frames

Throw(what, def, i) ==
    /\ pc' = "done"
    /\ error' = Failure(what, def, i)
    /\ frames' = <<>>

\* A convertModule that never sets the optimize flag.
set_optimized_skipped(mods, module, o) == mods

\* module->set_optimized(o) on the module of a path.
set_optimized(mods, module, o) == [mods EXCEPT ![module].set_optimized = Append(@, o)]

\* module = moduleLookup_(moduleStack_); module->set_optimized(...).
ConvertModuleLookup ==
    /\ pc = "convertModule"
    /\ Top.phase = "lookup"
    /\ LET found == moduleLookup_(modules, moduleStack_)
       IN  /\ lookups' = Append(lookups, [def |-> Top.def, path |-> moduleStack_,
                                          module |-> found.module])
           /\ modules' = set_optimized(found.modules, found.module, TopDef.optimize)
           /\ frames' = ReplaceTop(Advance(TopDef,
                            Frame(Top.def, found.module, "submodules", 0)))
    /\ UNCHANGED <<entry, last_record, model_def, pc, error, tensor_table_, storageMap,
                   storages, moduleStack_, fetches>>

\* A loop over the submodules that runs from the last to the first.
submodulesReversed(module_def, i) == Len(module_def.submodules) - i

\* A loop over the submodules that starts with the second and ends with
\* the first.
submodulesRotated(module_def, i) == ((i + 1) % Len(module_def.submodules)) + 1

\* A loop body that forgets moduleStack_.pop_back().
pop_nothing(stack) == stack

\* The submodule the loop body handles at loop counter i: submodules(i).
submodules(module_def, i) == i + 1

emplace_back(stack, name) == Append(stack, name)

pop_back(stack) == Front(stack)

\* moduleStack_.emplace_back(sub_def.name()); convertModule(sub_def).
ConvertSubmodule ==
    /\ pc = "convertModule"
    /\ Top.phase = "submodules"
    /\ LET sub == submodules(TopDef, Top.i)
           sub_def == TopDef.submodules[sub]
       IN  /\ moduleStack_' = emplace_back(moduleStack_, sub_def.name)
           /\ frames' = Append(frames, Frame(Append(Top.def, sub), <<>>, "lookup", 0))
    /\ UNCHANGED <<entry, last_record, model_def, pc, error, tensor_table_, storageMap,
                   storages, modules, lookups, fetches>>

\* The arguments of module->register_parameter for a ParameterDef.
ParameterCall(param_def, tensor_table) ==
    [name |-> param_def.name, tensor |-> tensor_table[param_def.tensor_id + 1],
     is_buffer |-> param_def.is_buffer]

\* A parameter loop that passes over a tensor_id outside the table instead of
\* failing on it.
RegisterParameterSkipping ==
    /\ pc = "convertModule"
    /\ Top.phase = "parameters"
    /\ LET param_def == TopDef.parameters[Top.i + 1]
       IN  /\ modules' =
                  IF param_def.tensor_id \in 0..(Len(tensor_table_) - 1)
                  THEN [modules EXCEPT ![Top.module].register_parameter =
                           Append(@, ParameterCall(param_def, tensor_table_))]
                  ELSE modules
           /\ frames' = ReplaceTop(Advance(TopDef, [Top EXCEPT !.i = @ + 1]))
    /\ UNCHANGED <<entry, last_record, model_def, pc, error, tensor_table_, storageMap,
                   storages, moduleStack_, lookups, fetches>>

\* tensor_table_.at(param_def.tensor_id()); module->register_parameter(...).
RegisterParameter ==
    /\ pc = "convertModule"
    /\ Top.phase = "parameters"
    /\ LET param_def == TopDef.parameters[Top.i + 1]
       IN  IF param_def.tensor_id \in 0..(Len(tensor_table_) - 1)
           THEN /\ modules' = [modules EXCEPT ![Top.module].register_parameter =
                                  Append(@, ParameterCall(param_def, tensor_table_))]
                /\ frames' = ReplaceTop(Advance(TopDef, [Top EXCEPT !.i = @ + 1]))
                /\ UNCHANGED <<pc, error>>
           ELSE /\ Throw("InvalidTensorId", Top.def, Top.i)
                /\ UNCHANGED modules
    /\ UNCHANGED <<entry, last_record, model_def, tensor_table_, storageMap, storages,
                   moduleStack_, lookups, fetches>>

\* A build in which the JIT_ASSERT on the arena size checks nothing.
ArenaSizeUnchecked(size, torchscript_arena) == TRUE

\* JIT_ASSERT(size == module_def.torchscript_arena().size()).
ArenaSizeOk(size, torchscript_arena) == size = torchscript_arena.size

\* The call import_methods(module, data_str, tensor_table_): the record whose
\* bytes it is given, the tensor table, and the parameters the module
\* exposes when it is called.
MethodsCall(def, record_id, module) ==
    [def |-> def, data |-> record_id, tensor_table |-> tensor_table_,
     parameters |-> module.register_parameter]

\* A convertModule that takes the arena from the tensor storages when one
\* was built from its record, without a request to the reader.
ImportMethodsCached ==
    /\ pc = "convertModule"
    /\ Top.phase = "arena"
    /\ LET record_id == stoull(TopDef.torchscript_arena.key)
       IN  /\ fetches' = IF \E k \in 1..Len(storages) : storages[k].record = record_id
                         THEN fetches
                         ELSE Append(fetches, Request("convertModule", Top.def, record_id))
           /\ IF ~HasRecord(record_id)
              THEN /\ Throw("ArchiveReadError", Top.def, 0)
                   /\ UNCHANGED modules
              ELSE IF ~ArenaSizeOk(Records[record_id], TopDef.torchscript_arena)
              THEN /\ Throw("CodeArenaSizeMismatch", Top.def, 0)
                   /\ UNCHANGED modules
              ELSE /\ modules' = [modules EXCEPT ![Top.module].import_methods =
                                    Append(@, MethodsCall(Top.def, record_id,
                                                          modules[Top.module]))]
                   /\ IF Loadable(record_id)
                      THEN /\ frames' = ReplaceTop([Top EXCEPT !.phase = "return"])
                           /\ UNCHANGED <<pc, error>>
                      ELSE Throw("CodeLoaderError", Top.def, 0)
    /\ UNCHANGED <<entry, last_record, model_def, tensor_table_, storageMap, storages,
                   moduleStack_, lookups>>

\* reader_.getRecordWithKey(arena key); JIT_ASSERT; import_methods(...).
ImportMethods ==
    /\ pc = "convertModule"
    /\ Top.phase = "arena"
    /\ LET record_id == stoull(TopDef.torchscript_arena.key)
       IN  /\ fetches' = Append(fetches, Request("convertModule", Top.def, record_id))
           /\ IF ~HasRecord(record_id)
              THEN /\ Throw("ArchiveReadError", Top.def, 0)
                   /\ UNCHANGED modules
              ELSE IF ~ArenaSizeOk(Records[record_id], TopDef.torchscript_arena)
              THEN /\ Throw("CodeArenaSizeMismatch", Top.def, 0)
                   /\ UNCHANGED modules
              ELSE /\ modules' = [modules EXCEPT ![Top.module].import_methods =
                                    Append(@, MethodsCall(Top.def, record_id,
                                                          modules[Top.module]))]
                   /\ IF Loadable(record_id)
                      THEN /\ frames' = ReplaceTop([Top EXCEPT !.phase = "return"])
                           /\ UNCHANGED <<pc, error>>
                      ELSE Throw("CodeLoaderError", Top.def, 0)
    /\ UNCHANGED <<entry, last_record, model_def, tensor_table_, storageMap, storages,
                   moduleStack_, lookups>>

\* convertModule returns: to the loop of its caller, which pops the name it
\* pushed, or to deserialize, which returns.
ConvertModuleReturn ==
    /\ pc = "convertModule"
    /\ Top.phase = "return"
    /\ IF Len(frames) = 1
       THEN /\ pc' = "done"
            /\ frames' = <<>>
            /\ UNCHANGED moduleStack_
       ELSE LET caller == frames[Len(frames) - 1]
                caller_def == SubDef(model_def.main_module, caller.def)
            IN  /\ moduleStack_' = pop_back(moduleStack_)
                /\ frames' = Append(SubSeq(frames, 1, Len(frames) - 2),
                                    Advance(caller_def, [caller EXCEPT !.i = @ + 1]))
                /\ UNCHANGED pc
    /\ UNCHANGED <<entry, last_record, model_def, error, tensor_table_, storageMap,
                   storages, modules, lookups, fetches>>

-----------------------------------------------------------------------------

Next ==
    \/ Deserialize
    \/ LoadTensor
    \/ ConvertMainModule
    \/ ConvertModuleLookup
    \/ ConvertSubmodule
    \/ RegisterParameter
    \/ ImportMethods
    \/ ConvertModuleReturn

Spec == Init /\ [][Next]_vars

\* deserialize has returned to its caller without an exception.
Succeeded == pc = "done" /\ error.what = "none"

Failed == pc = "done" /\ error.what # "none"

-----------------------------------------------------------------------------
(* Properties of the tensor table.                                         *)

RecordKey(i) == stoull(model_def.tensors[i].data.key)

\* loadTensorTable has returned normally.
TableLoaded ==
    /\ last_record = "ok"
    /\ pc \in {"convertModule", "done"}
    /\ Len(tensor_table_) = Len(model_def.tensors)

\* The requests the tensor-table pass made for a record.
TensorRequests(record_id) ==
    {k \in 1..Len(fetches) : fetches[k].by = "loadTensor" /\ fetches[k].key = record_id}

\* C1. Aliasing: any two loaded tensors whose descriptors name the same
\* record are views over one and the same storage instance, the only one
\* ever constructed from that record.
Aliasing ==
    \A i, j \in 1..Len(tensor_table_) :
        RecordKey(i) = RecordKey(j) =>
            /\ tensor_table_[i].storage = tensor_table_[j].storage
            /\ storages[tensor_table_[i].storage].record = RecordKey(i)
            /\ \A s \in 1..Len(storages) :
                   storages[s].record = RecordKey(i) => s = tensor_table_[i].storage

\* A loaded table whose two descriptors write the key of one record in two
\* ways ("1" and "01") and are views over one storage.
AliasingWitness ==
    /\ TableLoaded
    /\ Len(tensor_table_) = 2
    /\ model_def.tensors[1].data.key # model_def.tensors[2].data.key
    /\ RecordKey(1) = RecordKey(2)
    /\ tensor_table_[1].storage = tensor_table_[2].storage

\* C2. Fetch-once: the tensor-table pass never requests a record twice, and
\* once the table is loaded every record a descriptor names has been
\* requested exactly once.
FetchOnce ==
    \A i \in 1..Len(model_def.tensors) :
        /\ Cardinality(TensorRequests(RecordKey(i))) <= 1
        /\ TableLoaded => Cardinality(TensorRequests(RecordKey(i))) = 1

\* A loaded table of two descriptors of one key, after a single request.
FetchOnceWitness ==
    /\ TableLoaded
    /\ Len(model_def.tensors) = 2
    /\ model_def.tensors[1].data.key = model_def.tensors[2].data.key
    /\ Len(fetches) = 1

\* C3 (as claimed). Storage size validation of every descriptor: deserialize
\* does not succeed when some descriptor declares a size that differs from
\* the length of the record it names.
StorageSizeValidated ==
    Succeeded =>
        \A i \in 1..Len(model_def.tensors) :
            HasRecord(RecordKey(i)) =>
                Records[RecordKey(i)] = model_def.tensors[i].data.size

-----------------------------------------------------------------------------
(* Properties of the module tree build.                                    *)

MainModule == model_def.main_module

Def(d) == SubDef(MainModule, d)

\* A register_parameter call is the one a ParameterDescriptor asks for: its
\* name, the tensor of its tensor_id in the table, its classification.
RegisteredAs(param_def, call) ==
    /\ param_def.tensor_id \in 0..(Len(tensor_table_) - 1)
    /\ call = [name |-> param_def.name,
               tensor |-> tensor_table_[param_def.tensor_id + 1],
               is_buffer |-> param_def.is_buffer]

\* A sequence of register_parameter calls is exactly what the parameters of
\* descriptor d ask for, in their order.
DeclaredParameters(d, calls) ==
    /\ Len(calls) = Len(Def(d).parameters)
    /\ \A i \in 1..Len(calls) : RegisteredAs(Def(d).parameters[i], calls[i])

LastCalls(calls, n) == SubSeq(calls, Len(calls) - n + 1, Len(calls))

\* Every import_methods call made so far, on any module.
MethodsCalls ==
    UNION {{modules[p].import_methods[c] : c \in 1..Len(modules[p].import_methods)} :
           p \in DOMAIN modules}

LookedUp == {lookups[k].module : k \in 1..Len(lookups)}

ArenaMismatch == Failed /\ error.what = "CodeArenaSizeMismatch"

\* C4. Code-arena size validation: whenever convertModule has fetched the
\* arena record of a descriptor and its length differs from the declared
\* size, deserialize has failed with the code-arena size mismatch at that
\* descriptor and import_methods has not been called for it.
ArenaValidated ==
    \A k \in 1..Len(fetches) :
        (/\ fetches[k].by = "convertModule"
         /\ HasRecord(fetches[k].key)
         /\ Records[fetches[k].key] # Def(fetches[k].def).torchscript_arena.size)
        => /\ ArenaMismatch
           /\ error.def = fetches[k].def
           /\ \A call \in MethodsCalls : call.def # fetches[k].def

\* A mismatch at a submodule, after the code of another module was loaded.
ArenaValidatedWitness ==
    /\ ArenaMismatch
    /\ Len(error.def) = 1
    /\ MethodsCalls # {}

RECURSIVE ModuleNames(_, _)
ModuleNames(mods, path) ==
    [i \in 1..Len(mods[path].submodules) |->
        [name |-> mods[path].submodules[i],
         children |-> ModuleNames(mods, Append(path, mods[path].submodules[i]))]]

\* The names of the submodule descriptors below a descriptor, in order.
RECURSIVE DefNames(_)
DefNames(m) ==
    [i \in 1..Len(m.submodules) |->
        [name |-> m.submodules[i].name, children |-> DefNames(m.submodules[i])]]

\* C6 (as claimed). Tree fidelity (shape): after a successful load() the
\* module tree has the shape of the descriptor tree, same names in the same
\* order, one module per ModuleDescriptor.
TreeFidelityShape ==
    (entry = "load" /\ Succeeded) =>
        /\ ModuleNames(modules, <<>>) = DefNames(MainModule)
        /\ Cardinality(DOMAIN modules) = ModuleCount(MainModule)

\* C7 (as claimed). Tree fidelity (parameters): after a successful
\* deserialize the module obtained for each descriptor has had exactly the
\* register_parameter calls its ParameterDescriptors ask for, in their order.
TreeFidelityParameters ==
    Succeeded =>
        \A k \in 1..Len(lookups) :
            DeclaredParameters(lookups[k].def, modules[lookups[k].module].register_parameter)

\* C8. Traversal order: the descriptors the lookup callback has been invoked
\* for are a prefix of the depth-first pre-order, left-to-right enumeration
\* of the descriptor tree, and the whole of it, each descriptor once, after
\* a successful deserialize.
LookupOrder ==
    LET visited == [k \in 1..Len(lookups) |-> lookups[k].def]
    IN  /\ IsPrefix(visited, PreOrder(MainModule))
        /\ Succeeded => visited = PreOrder(MainModule)

\* A successful deserialize of a main module with two submodules.
LookupOrderWitness ==
    /\ Succeeded
    /\ Len(MainModule.submodules) = 2
    /\ Len(lookups) = 3

\* C9. Path discipline: every lookup is given the names of the descriptors
\* from below the main module down to the current one; throughout an
\* activation of convertModule, at its entry and at its return, the stack
\* holds that path; it is empty when deserialize returns.
PathDiscipline ==
    /\ \A k \in 1..Len(lookups) : lookups[k].path = NamePath(MainModule, lookups[k].def)
    /\ pc = "convertModule" => moduleStack_ = NamePath(MainModule, Top.def)
    /\ Succeeded => moduleStack_ = <<>>

\* A successful deserialize that looked a module up two levels below the main
\* module.
PathDisciplineWitness ==
    /\ Succeeded
    /\ \E k \in 1..Len(lookups) : Len(lookups[k].path) = 2

\* C10. Parameters before code: at every import_methods call the module
\* exposes all the parameters of the descriptor whose code is loaded, as
\* the latest registrations on it.
ParametersBeforeCode ==
    \A call \in MethodsCalls :
        /\ Len(call.parameters) >= Len(Def(call.def).parameters)
        /\ DeclaredParameters(call.def,
                              LastCalls(call.parameters, Len(Def(call.def).parameters)))

\* The code of a module with two parameters has been loaded.
ParametersBeforeCodeWitness ==
    \E call \in MethodsCalls :
        /\ Len(Def(call.def).parameters) = 2
        /\ Len(call.parameters) >= 2

-----------------------------------------------------------------------------
(* Properties of failures and of the order of the pipeline.                *)

\* tensor_id is an index of the tensor table.
ValidId(param_def) == param_def.tensor_id \in 0..(Len(tensor_table_) - 1)

\* The number of parameters of its descriptor an activation has got past.
ParametersPassed(frame) ==
    CASE frame.phase = "parameters" -> frame.i
      [] frame.phase \in {"arena", "return"} -> Len(Def(frame.def).parameters)
      [] OTHER -> 0

TimesLookedUp(module) == Cardinality({k \in 1..Len(lookups) : lookups[k].module = module})

\* C11. Invalid tensor id: convertModule never gets past a parameter whose
\* tensor_id is outside the tensor table and import_methods is never called
\* for a descriptor that has one; the failure is at the first such parameter
\* of the descriptor, the parameters before it are the latest registrations
\* on the module, and neither it nor a later one has been registered.
InvalidTensorIdFails ==
    /\ \A k \in 1..Len(frames) : \A j \in 1..ParametersPassed(frames[k]) :
           ValidId(Def(frames[k].def).parameters[j])
    /\ \A call \in MethodsCalls : \A j \in 1..Len(Def(call.def).parameters) :
           ValidId(Def(call.def).parameters[j])
    /\ error.what = "InvalidTensorId" =>
           LET d == error.def
               calls == modules[NamePath(MainModule, d)].register_parameter
           IN  /\ Failed
               /\ error.i < Len(Def(d).parameters)
               /\ ~ValidId(Def(d).parameters[error.i + 1])
               /\ Len(calls) >= error.i
               /\ \A j \in 1..error.i :
                      RegisteredAs(Def(d).parameters[j],
                                   LastCalls(calls, error.i)[j])
               /\ TimesLookedUp(NamePath(MainModule, d)) = 1 => Len(calls) = error.i
               /\ \A call \in MethodsCalls : call.def # d

\* A failure at the second parameter of a submodule, the first registered.
InvalidTensorIdFailsWitness ==
    /\ error.what = "InvalidTensorId"
    /\ error.i = 1
    /\ Len(error.def) = 1
    /\ Len(modules[NamePath(MainModule, error.def)].register_parameter) = 1

\* C12. Tensor table indexing: the table never has more entries than there
\* are tensor descriptors and has exactly as many once loadTensorTable has
\* returned; entry i has the dims, strides, offset, element type and
\* requires_grad of descriptor i and views the storage built from the
\* record its key names.
TensorTableIndexing ==
    /\ Len(tensor_table_) <= Len(model_def.tensors)
    /\ (pc = "convertModule" \/ lookups # <<>> \/ Succeeded) =>
           Len(tensor_table_) = Len(model_def.tensors)
    /\ \A i \in 1..Len(tensor_table_) :
           LET tensor == tensor_table_[i]
               tensor_proto == model_def.tensors[i]
           IN  /\ tensor.dims = tensor_proto.dims
               /\ tensor.strides = tensor_proto.strides
               /\ tensor.offset = tensor_proto.offset
               /\ tensor.type = tensor_proto.data_type
               /\ tensor.requires_grad = tensor_proto.requires_grad
               /\ tensor.storage \in 1..Len(storages)
               /\ storages[tensor.storage] =
                      [record |-> RecordKey(i),
                       numel |-> Records[RecordKey(i)] \div itemsize(tensor_proto.data_type)]

\* A complete table of two tensors that differ in strides and requires_grad.
TensorTableIndexingWitness ==
    /\ pc = "convertModule"
    /\ Len(tensor_table_) = MaxTensors
    /\ tensor_table_[1].requires_grad # tensor_table_[2].requires_grad
    /\ tensor_table_[1].strides # tensor_table_[2].strides

\* The record keys the tensor descriptors name, as parsed by stoull.
TensorKeys == {RecordKey(i) : i \in 1..Len(model_def.tensors)}

\* Descriptor i is the first of the list to name its record.
FirstOfKey(i) == \A j \in 1..(i - 1) : RecordKey(j) # RecordKey(i)

\* The bytes of the records the storages were built from.
DecodedBytes == SumSeq([k \in 1..Len(storages) |-> Records[storages[k].record]])

\* The sizes declared for the records, each record counted once, at the
\* descriptor that first names it.
DeclaredBytes ==
    SumSeq([i \in 1..Len(model_def.tensors) |->
               IF FirstOfKey(i) THEN model_def.tensors[i].data.size ELSE 0])

\* C13. Buffer count: once deserialize has succeeded there is exactly one
\* storage per distinct record key of the tensor descriptors, no two built
\* from the same record, and the bytes decoded into them add up to the
\* sizes declared for those keys (for each key, by the descriptor that
\* first names it).
BufferCount ==
    Succeeded =>
        /\ Len(storages) = Cardinality(TensorKeys)
        /\ \A k, l \in 1..Len(storages) : storages[k].record = storages[l].record => k = l
        /\ {storages[k].record : k \in 1..Len(storages)} = TensorKeys
        /\ DecodedBytes = DeclaredBytes

\* Success with more descriptors than distinct keys.
BufferCountWitness ==
    /\ Succeeded
    /\ Len(model_def.tensors) = 2
    /\ Cardinality(TensorKeys) = 1
    /\ DecodedBytes = 4

\* The module tree as it is when deserialize is called.
InitialModules == IF entry = "load" THEN (<<>> :> FreshModule) ELSE OwnedTree

\* No lookup, no change to a module, no import_methods call has happened.
TreeUntouched == lookups = <<>> /\ modules = InitialModules /\ MethodsCalls = {}

\* deserialize has failed on the last record or inside loadTensorTable.
EarlyFailure ==
    /\ error.what # "none"
    /\ \/ error.what \in {"MetadataTranscodeError", "SchemaValidationError",
                          "InvalidProtobufOutput", "StorageSizeMismatch"}
       \/ error.what = "ArchiveReadError" /\ (last_record # "ok" \/ error.i >= 1)

\* C14. Fixed pipeline order: until the last record has been read and
\* decoded nothing else has been done; while the tensor table is being
\* built only tensor records have been requested and the tree is untouched;
\* a lookup, a change to a module or an arena request implies the decoded
\* metadata and the complete tensor table; every tensor request precedes
\* every arena request; and a failure of the last record or of a tensor
\* storage leaves the tree untouched.
PipelineOrder ==
    /\ pc = "deserialize" =>
           fetches = <<>> /\ tensor_table_ = <<>> /\ storages = <<>> /\ TreeUntouched
    /\ pc = "loadTensorTable" =>
           /\ last_record = "ok"
           /\ TreeUntouched
           /\ \A k \in 1..Len(fetches) : fetches[k].by = "loadTensor"
    /\ (~TreeUntouched \/ \E k \in 1..Len(fetches) : fetches[k].by = "convertModule") =>
           /\ last_record = "ok"
           /\ Len(tensor_table_) = Len(model_def.tensors)
    /\ \A k, l \in 1..Len(fetches) :
           (k < l /\ fetches[k].by = "convertModule") => fetches[l].by = "convertModule"
    /\ EarlyFailure => TreeUntouched

\* A storage size failure at the second tensor, after the first was loaded.
PipelineOrderWitness ==
    /\ Failed
    /\ error.what = "StorageSizeMismatch"
    /\ error.i = 2
    /\ Len(tensor_table_) = 1
    /\ TreeUntouched

\* The descriptor convertModule visits last in the subtree of descriptor d.
LastOfSubtree(d) == Last(PreOrderFrom(Def(d), d))

ArenaRequests(d) ==
    {k \in 1..Len(fetches) : fetches[k].by = "convertModule" /\ fetches[k].def = d}

\* deserialize has failed inside convertModule.
ModuleFailure == error.what # "none" /\ ~EarlyFailure

\* C15. Fail-stop on first error: once an error is raised deserialize is
\* over and has no step left to take, and what it has done ends at the
\* failing step: a failure of the last record leaves nothing done; a failure
\* at tensor i leaves the i-1 tensors before it, its record requested last
\* and once, and the tree untouched; a failure in convertModule at a
\* descriptor leaves the lookups a prefix of the pre-order that ends with
\* the subtree of that descriptor, its arena requested at most once and
\* last, and import_methods called for it only if the error is its own.
FailStop ==
    error.what # "none" =>
        /\ pc = "done"
        /\ frames = <<>>
        /\ ~ENABLED Next
        /\ last_record # "ok" =>
               error.what = LastRecordError(last_record) /\ fetches = <<>>
                   /\ tensor_table_ = <<>> /\ TreeUntouched
        /\ (EarlyFailure /\ last_record = "ok") =>
               /\ Len(tensor_table_) = error.i - 1
               /\ Last(fetches) = Request("loadTensor", <<>>, RecordKey(error.i))
               /\ Cardinality(TensorRequests(RecordKey(error.i))) = 1
               /\ TreeUntouched
        /\ ModuleFailure =>
               LET d == error.def
                   calls == {call \in MethodsCalls : call.def = d}
               IN  /\ [k \in 1..Len(lookups) |-> lookups[k].def]
                          = SubSeq(PreOrder(MainModule), 1, Len(lookups))
                   /\ Last(lookups).def = LastOfSubtree(d)
                   /\ IF error.what = "InvalidTensorId"
                      THEN ArenaRequests(d) = {} /\ calls = {}
                      ELSE /\ ArenaRequests(d) = {Len(fetches)}
                           /\ (error.what = "CodeLoaderError") = (calls # {})
                           /\ Cardinality(calls) <= 1

\* The code loader fails on the first of two submodules: the second is never
\* looked up and the main module's arena never requested.
FailStopWitness ==
    /\ Failed
    /\ error.what = "CodeLoaderError"
    /\ error.def = <<1>>
    /\ Len(MainModule.submodules) = 2
    /\ Len(lookups) = 2
    /\ ArenaRequests(<<>>) = {}

\* A module but for the submodules registered under it.
Contents(module) == [module EXCEPT !.submodules = <<>>]

\* convertModule is about to call moduleLookup_.
LookupDue == pc = "convertModule" /\ Top.phase = "lookup"

\* C16. Lookup idempotence of load: whenever convertModule is about to call
\* the lambda, the lambda applied to any path (the one it is about to be
\* called with or another) returns the module of that path; for the empty path
\* and for a path whose modules all exist it changes nothing; it keeps every
\* module there is, adding at most to its submodules; what it creates is
\* fresh and lies on the path; no module has two submodules of one name;
\* a second call for the path changes nothing; and a module looked up more
\* than once has kept what was done to it, one set_optimized per lookup.
LookupIdempotent ==
    entry = "load" =>
        /\ LookupDue => \A q \in ModulePaths : \A r \in {module_lookup(modules, q)} :
                   /\ r.module = q
                   /\ q \in DOMAIN r.modules
                   /\ (q = <<>> \/ q \in DOMAIN modules) => r.modules = modules
                   /\ \A p \in DOMAIN modules :
                          /\ p \in DOMAIN r.modules
                          /\ Contents(r.modules[p]) = Contents(modules[p])
                          /\ IsPrefix(modules[p].submodules, r.modules[p].submodules)
                   /\ \A p \in DOMAIN r.modules \ DOMAIN modules :
                          IsPrefix(p, q) /\ Contents(r.modules[p]) = FreshModule
                   /\ \A p \in DOMAIN r.modules : \A i, j \in 1..Len(r.modules[p].submodules) :
                          r.modules[p].submodules[i] = r.modules[p].submodules[j] => i = j
                   /\ module_lookup(r.modules, q) = r
        /\ \A k \in 1..Len(lookups) : lookups[k].module = lookups[k].path
        /\ \A p \in DOMAIN modules :
               /\ Len(modules[p].set_optimized) = TimesLookedUp(p)
               /\ \A i \in 1..Len(p) : SubSeq(p, 1, i - 1) \in DOMAIN modules
                      /\ find_module(modules, SubSeq(p, 1, i - 1), p[i])

\* load has looked the same submodule path up twice.
LookupIdempotentWitness ==
    /\ entry = "load"
    /\ \E k, l \in 1..Len(lookups) :
           k < l /\ lookups[k].path # <<>> /\ lookups[k].path = lookups[l].path
    /\ Succeeded

\* C17. Schema fail-closed: when the last record cannot be read or is
\* rejected by the transcoder or by ParseFromString, deserialize never
\* enters loadTensorTable or convertModule with its default-constructed
\* model_def: it builds no tensor, requests no record, leaves the tree
\* untouched, and ends with the error of that rejection.
SchemaFailClosed ==
    last_record # "ok" =>
        /\ pc \in {"deserialize", "done"}
        /\ model_def = EmptyModelDef
        /\ tensor_table_ = <<>> /\ storages = <<>> /\ storageMap = <<>>
        /\ fetches = <<>> /\ frames = <<>> /\ moduleStack_ = <<>>
        /\ TreeUntouched
        /\ pc = "done" =>
               error.what = LastRecordError(last_record) /\ error.what # "none"

\* deserialize has failed on metadata the transcoder rejected for its schema.
SchemaFailClosedWitness ==
    /\ Failed
    /\ last_record = "schema_mismatch"
    /\ error = Failure("SchemaValidationError", <<>>, 0)

\* C18. Deduplication map frame: storageMap changes only in a step of
\* loadTensorTable; while convertModule runs the map is gone and neither
\* it, nor a storage, nor the tensor table changes; and a step that reaches
\* the arena of a descriptor always requests its record from the reader,
\* whatever storages the tensors have.
MapFrame ==
    [][/\ storageMap' # storageMap => pc = "loadTensorTable"
       /\ pc = "convertModule" =>
              /\ storageMap = <<>>
              /\ UNCHANGED <<storageMap, storages, tensor_table_>>
              /\ Top.phase = "arena" =>
                     fetches' = Append(fetches,
                                       Request("convertModule", Top.def,
                                               stoull(TopDef.torchscript_arena.key)))]_vars

\* The arena of a module has been requested under the key of a record that
\* a tensor storage was built from.
MapFrameWitness ==
    /\ Succeeded
    /\ storages # <<>>
    /\ \E k, l \in 1..Len(fetches) :
           /\ fetches[k].by = "loadTensor"
           /\ fetches[l].by = "convertModule"
           /\ fetches[k].key = fetches[l].key
    /\ \A k \in 1..Len(fetches) :
           fetches[k].by = "loadTensor" =>
               Cardinality(TensorRequests(fetches[k].key)) = 1

\* All descriptors of the tree of m, as index sequences, in depth-first
\* post-order with siblings left to right.
RECURSIVE PostOrderFrom(_, _), PostOrderSubs(_, _, _)
PostOrderSubs(m, ipath, i) ==
    IF i > Len(m.submodules) THEN <<>>
    ELSE PostOrderFrom(m.submodules[i], Append(ipath, i)) \o PostOrderSubs(m, ipath, i + 1)
PostOrderFrom(m, ipath) == PostOrderSubs(m, ipath, 1) \o <<ipath>>

PostOrder(m) == PostOrderFrom(m, <<>>)

IsArenaRequest(request) == request.by = "convertModule"

\* The descriptors whose arena convertModule has reached, in that order.
ArenaOrder ==
    LET requests == SelectSeq(fetches, IsArenaRequest)
    IN  [k \in 1..Len(requests) |-> requests[k].def]

\* The descriptors of the import_methods calls made on a module, in order.
MethodsOrder(p) == [c \in 1..Len(modules[p].import_methods) |-> modules[p].import_methods[c].def]

\* Descriptors with the path of the module convertModule converts each into.
Targets(order) ==
    [k \in 1..Len(order) |-> [def |-> order[k], module |-> NamePath(MainModule, order[k])]]

\* The descriptors among targets that are converted into module p.
DefsOf(targets, p) ==
    LET mine == SelectSeq(targets, LAMBDA t : t.module = p)
    IN  [k \in 1..Len(mine) |-> mine[k].def]

\* The arena of the last descriptor reached was not handed to import_methods.
ArenaRejected == error.what \in {"ArchiveReadError", "CodeArenaSizeMismatch"} /\ ModuleFailure

\* C19. Code loading is post-order: the descriptors whose arena has been
\* reached are always a prefix of the post-order of the tree (children left
\* to right before their parent, the main module last) and, on success, all
\* of it; import_methods has been called on each module once for each of
\* them that is converted into it, in that order, but for a last one whose
\* arena was rejected; and every call was given the complete tensor table.
CodePostOrder ==
    /\ \A order \in {ArenaOrder} :
           /\ IF Succeeded THEN order = PostOrder(MainModule)
              ELSE IsPrefix(order, PostOrder(MainModule))
           /\ \A targets \in {Targets(IF ArenaRejected THEN Front(order) ELSE order)} :
                  \A p \in DOMAIN modules : MethodsOrder(p) = DefsOf(targets, p)
    /\ \A call \in MethodsCalls :
           /\ call.tensor_table = tensor_table_
           /\ Len(call.tensor_table) = Len(model_def.tensors)

\* Success on a tree of a main module and two submodules, with tensors.
CodePostOrderWitness ==
    /\ Succeeded
    /\ ArenaOrder = <<<<1>>, <<2>>, <<>>>>
    /\ tensor_table_ # <<>>
    /\ Cardinality(MethodsCalls) = 3

====
